---------------------------- MODULE Spec2Model ----------------------------
(***************************************************************************)
(* Model of src/weather_app/tic_tac_toe.py: the TicTacToe engine (board,   *)
(* move legality, winner scan, exhaustive minimax with in-place            *)
(* mutate/retract) and the three HTTP handlers that drive the single       *)
(* shared game (make_move, reset, get_board).                              *)
(*                                                                         *)
(* Spec        the service: requests executed one after another on the     *)
(*             shared game, starting from the freshly constructed game.    *)
(* EngineSpec  the engine's methods called once on an arbitrary board.     *)
(* ConcSpec    two make_move requests served by two threads on the shared  *)
(*             game, interleaved between accesses to game.board.           *)
(***************************************************************************)
EXTENDS Integers, Sequences, FiniteSets, TLC

VARIABLES
    board,           \* game.board: cell index 0..8 -> '', 'X', 'O'
    current_player,  \* game.current_player
    resp,            \* the response of the last request
    req,             \* the position of the last request that placed a mark
    over,            \* a game_over response was returned since the last reset
    late,            \* a make_move succeeded after a game_over response
    pc,              \* "service" | "idle" (engine call pending) | "returned"
                     \* | "threads" (two requests in flight)
    ret,             \* what the engine call returned
    threads          \* the two requests in flight: each one's position in the
                     \* handler and its local variables

vars == <<board, current_player, resp, req, over, late, pc, ret, threads>>

---------------------------------------------------------------------------
(* Bounds *)

\* how many integers beyond each end of 0..8 a request may carry
OutOfRange == 1
\* the search is called directly only on boards with at most this many empty cells
MaxSearchEmpty == 4
\* the depth argument of a direct minimax call ranges over 0..MaxCallDepth
MaxCallDepth == 0
\* a thread's search holds at most this many activations of get_best_move and
\* minimax at a time (a search that runs alone on a board with three empty
\* cells holds two)
MaxFrames == 2

---------------------------------------------------------------------------
(* Values *)

Cells == {"", "X", "O"}
Indices == 0 .. 8
\* ['' for _ in range(9)], as an explicit nine-cell array
EmptyBoard ==
    0 :> "" @@ 1 :> "" @@ 2 :> "" @@ 3 :> "" @@ 4 :> ""
      @@ 5 :> "" @@ 6 :> "" @@ 7 :> "" @@ 8 :> ""

\* float('-inf') and float('inf'): below / above every score (|score| <= 10)
NegInf == -100
PosInf == 100

\* a JSON position: an integer, null (or the key missing), or a non-integer
\* number v/2 with v odd
IntPos(n) == [kind |-> "int", v |-> n]
NullPos == [kind |-> "null", v |-> 0]
HalfPos(v) == [kind |-> "float", v |-> v]
Positions ==
    {IntPos(n) : n \in (0 - OutOfRange) .. (8 + OutOfRange)}
        \cup {NullPos} \cup {HalfPos(3), HalfPos(19)}

max(a, b) == IF a >= b THEN a ELSE b
min(a, b) == IF a <= b THEN a ELSE b

---------------------------------------------------------------------------
(* class TicTacToe *)

\* make_move as it would be without the test that the cell is empty
make_move_overwriting(b, position, player) ==
    IF position.kind = "null"
    THEN [raised |-> TRUE, ok |-> FALSE, board |-> b]
    ELSE IF position.kind = "float"
    THEN IF 0 <= position.v /\ position.v < 18
         THEN [raised |-> TRUE, ok |-> FALSE, board |-> b]
         ELSE [raised |-> FALSE, ok |-> FALSE, board |-> b]
    ELSE IF 0 <= position.v /\ position.v < 9
    THEN [raised |-> FALSE, ok |-> TRUE,
          board |-> [b EXCEPT ![position.v] = player]]
    ELSE [raised |-> FALSE, ok |-> FALSE, board |-> b]

\* make_move: ok = the returned bool; raised = a TypeError left the method
TicTacToe_make_move(b, position, player) ==
    IF position.kind = "null"
    THEN [raised |-> TRUE, ok |-> FALSE, board |-> b]
    ELSE IF position.kind = "float"
    THEN IF 0 <= position.v /\ position.v < 18
         THEN [raised |-> TRUE, ok |-> FALSE, board |-> b]
         ELSE [raised |-> FALSE, ok |-> FALSE, board |-> b]
    ELSE IF 0 <= position.v /\ position.v < 9 /\ b[position.v] = ""
    THEN [raised |-> FALSE, ok |-> TRUE,
          board |-> [b EXCEPT ![position.v] = player]]
    ELSE [raised |-> FALSE, ok |-> FALSE, board |-> b]

\* range(9)
range9 == <<0, 1, 2, 3, 4, 5, 6, 7, 8>>

\* get_available_moves as it would be with != '' in place of == ''
get_available_moves_occupied(b) ==
    LET IsTaken(i) == b[i] # "" IN SelectSeq(range9, IsTaken)

get_available_moves(b) ==
    LET IsEmpty(i) == b[i] = "" IN SelectSeq(range9, IsEmpty)

winning_combinations ==
    << <<0, 1, 2>>, <<3, 4, 5>>, <<6, 7, 8>>,
       <<0, 3, 6>>, <<1, 4, 7>>, <<2, 5, 8>>,
       <<0, 4, 8>>, <<2, 4, 6>> >>

\* the test of line 28 as it would be without != ''
Line_any_equal(b, p, q, r) == b[p] = b[q] /\ b[q] = b[r]

\* the test of line 28 on one combo [p, q, r]
Line(b, p, q, r) == b[p] = b[q] /\ b[q] = b[r] /\ b[r] # ""

\* check_winner: the for loop over winning_combinations, one combo per IF, in
\* list order; "None" stands for None
check_winner(b) ==
    IF Line(b, 0, 1, 2) THEN b[0]
    ELSE IF Line(b, 3, 4, 5) THEN b[3]
    ELSE IF Line(b, 6, 7, 8) THEN b[6]
    ELSE IF Line(b, 0, 3, 6) THEN b[0]
    ELSE IF Line(b, 1, 4, 7) THEN b[1]
    ELSE IF Line(b, 2, 5, 8) THEN b[2]
    ELSE IF Line(b, 0, 4, 8) THEN b[0]
    ELSE IF Line(b, 2, 4, 6) THEN b[2]
    ELSE "None"

is_board_full(b) == \A i \in Indices : b[i] # ""

\* the outcome as every caller derives it: check_winner first, then
\* is_board_full
Outcome(b) ==
    IF check_winner(b) # "None" THEN <<"Win", check_winner(b)>>
    ELSE IF is_board_full(b) THEN <<"Draw">>
    ELSE <<"InProgress">>

RECURSIVE minimax(_, _, _)

\* the maximizing iteration as it would be without the retraction
MaximizingStep_no_retract(st, move, depth) ==
    LET r == minimax([st.board EXCEPT ![move] = "O"], depth + 1, FALSE)
    IN [i |-> st.i + 1, score |-> max(r.score, st.score), board |-> r.board]

\* one iteration of the maximizing loop: write 'O', recurse, retract, max
MaximizingStep(st, move, depth) ==
    LET r == minimax([st.board EXCEPT ![move] = "O"], depth + 1, FALSE)
    IN [i |-> st.i + 1, score |-> max(r.score, st.score),
        board |-> [r.board EXCEPT ![move] = ""]]

\* the minimizing iteration as it would be with max in place of min
MinimizingStep_max(st, move, depth) ==
    LET r == minimax([st.board EXCEPT ![move] = "X"], depth + 1, TRUE)
    IN [i |-> st.i + 1, score |-> max(r.score, st.score),
        board |-> [r.board EXCEPT ![move] = ""]]

\* one iteration of the minimizing loop: write 'X', recurse, retract, min
MinimizingStep(st, move, depth) ==
    LET r == minimax([st.board EXCEPT ![move] = "X"], depth + 1, TRUE)
    IN [i |-> st.i + 1, score |-> min(r.score, st.score),
        board |-> [r.board EXCEPT ![move] = ""]]

\* the iteration of get_best_move as it would be with < in place of > (and
\* best_score starting at +inf): the lowest score is selected
BestMoveStep_lowest(st, move) ==
    LET r == minimax([st.board EXCEPT ![move] = "O"], 0, FALSE)
        b2 == [r.board EXCEPT ![move] = ""]
    IN IF ~st.found \/ r.score < st.score
       THEN [i |-> st.i + 1, score |-> r.score, found |-> TRUE,
             move |-> move, board |-> b2]
       ELSE [i |-> st.i + 1, score |-> st.score, found |-> st.found,
             move |-> st.move, board |-> b2]

\* the iteration of get_best_move as it would be with >= in place of >: the
\* last of the moves with the greatest score is kept
BestMoveStep_last_of_equals(st, move) ==
    LET r == minimax([st.board EXCEPT ![move] = "O"], 0, FALSE)
        b2 == [r.board EXCEPT ![move] = ""]
    IN IF r.score >= st.score
       THEN [i |-> st.i + 1, score |-> r.score, found |-> TRUE,
             move |-> move, board |-> b2]
       ELSE [i |-> st.i + 1, score |-> st.score, found |-> st.found,
             move |-> st.move, board |-> b2]

\* the iteration of get_best_move as it would be with minimax(1, False): the
\* depth counted from the board get_best_move is called on
BestMoveStep_depth_one(st, move) ==
    LET r == minimax([st.board EXCEPT ![move] = "O"], 1, FALSE)
        b2 == [r.board EXCEPT ![move] = ""]
    IN IF r.score > st.score
       THEN [i |-> st.i + 1, score |-> r.score, found |-> TRUE,
             move |-> move, board |-> b2]
       ELSE [i |-> st.i + 1, score |-> st.score, found |-> st.found,
             move |-> st.move, board |-> b2]

\* one iteration of the loop of get_best_move; found = best_move is not None
BestMoveStep(st, move) ==
    LET r == minimax([st.board EXCEPT ![move] = "O"], 0, FALSE)
        b2 == [r.board EXCEPT ![move] = ""]
    IN IF r.score > st.score
       THEN [i |-> st.i + 1, score |-> r.score, found |-> TRUE,
             move |-> move, board |-> b2]
       ELSE [i |-> st.i + 1, score |-> st.score, found |-> st.found,
             move |-> st.move, board |-> b2]

\* a for loop over moves, taken in list order: st is the state of the loop's
\* variables, st.i the number of moves already taken
RECURSIVE ForEachMove(_, _, _, _)
ForEachMove(which, moves, st, depth) ==
    IF st.i >= Len(moves) THEN st
    ELSE ForEachMove(which, moves,
                     CASE which = "best" -> BestMoveStep(st, moves[st.i + 1])
                       [] which = "max" -> MaximizingStep(st, moves[st.i + 1], depth)
                       [] which = "min" -> MinimizingStep(st, moves[st.i + 1], depth),
                     depth)

\* minimax: the score returned and the board as the call leaves it
minimax(b, depth, is_maximizing) ==
    LET winner == check_winner(b) IN
    IF winner = "O" THEN [score |-> 10 - depth, board |-> b]
    ELSE IF winner = "X" THEN [score |-> depth - 10, board |-> b]
    ELSE IF is_board_full(b) THEN [score |-> 0, board |-> b]
    ELSE IF is_maximizing
    THEN ForEachMove("max", get_available_moves(b),
                     [i |-> 0, score |-> NegInf, board |-> b], depth)
    ELSE ForEachMove("min", get_available_moves(b),
                     [i |-> 0, score |-> PosInf, board |-> b], depth)

\* get_best_move as it would be with best_score starting at float('inf'): no
\* score is greater, so best_move stays None
get_best_move_from_plus_inf(b) ==
    LET available == get_available_moves(b) IN
    IF available = <<>>
    THEN [choices |-> {}, random |-> FALSE, score |-> PosInf, board |-> b]
    ELSE LET l == ForEachMove("best", available,
                      [i |-> 0, score |-> PosInf, found |-> FALSE, move |-> 0,
                       board |-> b], 0)
         IN IF l.found
            THEN [choices |-> {l.move}, random |-> FALSE,
                  score |-> l.score, board |-> l.board]
            ELSE [choices |-> {available[k] : k \in 1 .. Len(available)},
                  random |-> TRUE, score |-> l.score, board |-> l.board]

\* get_best_move: choices = the values the call may return ({} stands for None),
\* random = the value comes from random.choice(available)
get_best_move(b) ==
    LET available == get_available_moves(b) IN
    IF available = <<>>
    THEN [choices |-> {}, random |-> FALSE, score |-> NegInf, board |-> b]
    ELSE LET l == ForEachMove("best", available,
                      [i |-> 0, score |-> NegInf, found |-> FALSE, move |-> 0,
                       board |-> b], 0)
         IN IF l.found
            THEN [choices |-> {l.move}, random |-> FALSE,
                  score |-> l.score, board |-> l.board]
            ELSE [choices |-> {available[k] : k \in 1 .. Len(available)},
                  random |-> TRUE, score |-> l.score, board |-> l.board]

\* reset as it would be with range(8) in place of range(9)
reset_eight_cells ==
    0 :> "" @@ 1 :> "" @@ 2 :> "" @@ 3 :> "" @@ 4 :> ""
      @@ 5 :> "" @@ 6 :> "" @@ 7 :> ""

TicTacToe_reset == EmptyBoard

---------------------------------------------------------------------------
(* The shared game and the request handlers *)

\* jsonify(...) of a handler; payload = the response carries board and game_over
Response(kind, success, status, game_over, b) ==
    [kind |-> kind, success |-> success, status |-> status,
     payload |-> TRUE, game_over |-> game_over, board |-> b]

\* {'success': False, 'message': 'Invalid move'}
InvalidMove ==
    [kind |-> "make_move", success |-> FALSE, status |-> "Invalid move",
     payload |-> FALSE, game_over |-> FALSE, board |-> <<>>]

\* the handler ended in an uncaught TypeError instead of a response
Raised ==
    [kind |-> "raised", success |-> FALSE, status |-> "TypeError",
     payload |-> FALSE, game_over |-> FALSE, board |-> <<>>]

NoResponse ==
    [kind |-> "none", success |-> FALSE, status |-> "",
     payload |-> FALSE, game_over |-> FALSE, board |-> <<>>]

\* the second half of the make_move handler: the board after the AI move
\* and the response built from it
AfterAIMove(b) ==
    IF check_winner(b) # "None"
    THEN [board |-> b, resp |-> Response("make_move", TRUE, "AI (O) wins!", TRUE, b)]
    ELSE IF is_board_full(b)
    THEN [board |-> b, resp |-> Response("make_move", TRUE, "It's a draw!", TRUE, b)]
    ELSE [board |-> b, resp |-> Response("make_move", TRUE, "Your turn", FALSE, b)]

\* the '# AI move' step as it would be if the move found were not applied
AIMove_not_applied(b) == {get_best_move(b).board}

\* the boards the '# AI move' step may leave
AIMove(b) ==
    LET g == get_best_move(b) IN
    IF g.choices = {} THEN {g.board}
    ELSE {TicTacToe_make_move(g.board, IntPos(ai_move), "O").board :
              ai_move \in g.choices}

\* the make_move handler as it would be without the checks between the
\* human's mark and the AI move
make_move_results_no_check(b, position) ==
    LET m == TicTacToe_make_move(b, position, "X") IN
    IF m.raised THEN {[board |-> m.board, resp |-> Raised]}
    ELSE IF ~m.ok THEN {[board |-> m.board, resp |-> InvalidMove]}
    ELSE {AfterAIMove(b2) : b2 \in AIMove(m.board)}

\* the make_move handler as it would be with a game-over guard in front: a
\* request on a board that has a line or is full is rejected
make_move_results_game_over_guard(b, position) ==
    LET m == TicTacToe_make_move(b, position, "X") IN
    IF m.raised THEN {[board |-> m.board, resp |-> Raised]}
    ELSE IF check_winner(b) # "None" \/ is_board_full(b)
    THEN {[board |-> b, resp |-> InvalidMove]}
    ELSE IF ~m.ok THEN {[board |-> m.board, resp |-> InvalidMove]}
    ELSE IF check_winner(m.board) # "None"
    THEN {[board |-> m.board,
           resp |-> Response("make_move", TRUE, "Player X wins!", TRUE, m.board)]}
    ELSE IF is_board_full(m.board)
    THEN {[board |-> m.board,
           resp |-> Response("make_move", TRUE, "It's a draw!", TRUE, m.board)]}
    ELSE {AfterAIMove(b2) : b2 \in AIMove(m.board)}

\* the make_move handler on board b: every (board, response) it may end with
make_move_results(b, position) ==
    LET m == TicTacToe_make_move(b, position, "X") IN
    IF m.raised THEN {[board |-> m.board, resp |-> Raised]}
    ELSE IF ~m.ok THEN {[board |-> m.board, resp |-> InvalidMove]}
    ELSE IF check_winner(m.board) # "None"
    THEN {[board |-> m.board,
           resp |-> Response("make_move", TRUE, "Player X wins!", TRUE, m.board)]}
    ELSE IF is_board_full(m.board)
    THEN {[board |-> m.board,
           resp |-> Response("make_move", TRUE, "It's a draw!", TRUE, m.board)]}
    ELSE {AfterAIMove(b2) : b2 \in AIMove(m.board)}

\* POST /api/make_move
make_move(position) ==
    /\ pc = "service"
    /\ \E o \in make_move_results(board, position) :
          /\ board' = o.board
          /\ resp' = o.resp
          /\ over' = (over \/ (o.resp.success /\ o.resp.game_over))
          /\ late' = (late \/ (over /\ o.resp.success))
          /\ req' = IF o.resp.success THEN position ELSE req
    /\ UNCHANGED <<current_player, pc, ret, threads>>

\* the reset handler as it would be if game.reset() left the board alone
reset_keeps_board ==
    /\ pc = "service"
    /\ board' = board
    /\ current_player' = "X"
    /\ resp' = Response("reset", TRUE, "Game reset", FALSE, board)
    /\ req' = NullPos
    /\ over' = FALSE
    /\ late' = FALSE
    /\ UNCHANGED <<pc, ret, threads>>

\* POST /api/reset
reset ==
    /\ pc = "service"
    /\ board' = TicTacToe_reset
    /\ current_player' = "X"
    /\ resp' = Response("reset", TRUE, "Game reset", FALSE, TicTacToe_reset)
    /\ req' = NullPos
    /\ over' = FALSE
    /\ late' = FALSE
    /\ UNCHANGED <<pc, ret, threads>>

\* GET /api/board
get_board ==
    /\ pc = "service"
    /\ resp' = Response("board", TRUE, "Ready", FALSE, board)
    /\ UNCHANGED <<board, current_player, req, over, late, pc, ret, threads>>

NoReturn == [op |-> "none"]
\* no request is being served by a thread of its own
NoThreads == <<>>

\* game = TicTacToe(), no request served yet
Init ==
    /\ board = EmptyBoard
    /\ current_player = "X"
    /\ resp = NoResponse
    /\ req = NullPos
    /\ over = FALSE
    /\ late = FALSE
    /\ pc = "service"
    /\ ret = NoReturn
    /\ threads = NoThreads

Next ==
    \/ \E position \in Positions : make_move(position)
    \/ reset
    \/ get_board

Spec == Init /\ [][Next]_vars

---------------------------------------------------------------------------
(* The engine's methods, each called once on an arbitrary board *)

\* TicTacToe.make_move(position, player) on the board
CallMakeMove(position, player) ==
    /\ pc = "idle"
    /\ LET m == TicTacToe_make_move(board, position, player) IN
          /\ board' = m.board
          /\ ret' = [op |-> "make_move", before |-> board, position |-> position,
                     player |-> player, raised |-> m.raised, value |-> m.ok]
    /\ pc' = "returned"
    /\ UNCHANGED <<current_player, resp, req, over, late, threads>>

\* check_winner(), is_board_full() and get_available_moves() on the board
CallEvaluate ==
    /\ pc = "idle"
    /\ ret' = [op |-> "evaluate", before |-> board,
               winner |-> check_winner(board), full |-> is_board_full(board),
               outcome |-> Outcome(board),
               available |-> get_available_moves(board)]
    /\ pc' = "returned"
    /\ UNCHANGED <<board, current_player, resp, req, over, late, threads>>

NumEmpty(b) == Cardinality({i \in Indices : b[i] = ""})

\* get_best_move() on the board
CallGetBestMove ==
    /\ pc = "idle"
    /\ NumEmpty(board) <= MaxSearchEmpty
    /\ LET g == get_best_move(board) IN
          /\ board' = g.board
          /\ ret' = [op |-> "get_best_move", before |-> board,
                     choices |-> g.choices, random |-> g.random,
                     score |-> g.score]
    /\ pc' = "returned"
    /\ UNCHANGED <<current_player, resp, req, over, late, threads>>

\* minimax(depth, is_maximizing) on the board
CallMinimax(depth, is_maximizing) ==
    /\ pc = "idle"
    /\ NumEmpty(board) <= MaxSearchEmpty
    /\ LET r == minimax(board, depth, is_maximizing) IN
          /\ board' = r.board
          /\ ret' = [op |-> "minimax", before |-> board, depth |-> depth,
                     is_maximizing |-> is_maximizing, score |-> r.score]
    /\ pc' = "returned"
    /\ UNCHANGED <<current_player, resp, req, over, late, threads>>

\* any board of nine cells over '', 'X', 'O'; no call made yet
EngineInit ==
    /\ board \in [Indices -> Cells]
    /\ current_player = "X"
    /\ resp = NoResponse
    /\ req = NullPos
    /\ over = FALSE
    /\ late = FALSE
    /\ pc = "idle"
    /\ ret = NoReturn
    /\ threads = NoThreads

EngineNext ==
    \/ \E position \in Positions, player \in {"X", "O"} :
          CallMakeMove(position, player)
    \/ CallEvaluate
    \/ CallGetBestMove
    \/ \E depth \in 0 .. MaxCallDepth, is_maximizing \in BOOLEAN :
          CallMinimax(depth, is_maximizing)

EngineSpec == EngineInit /\ [][EngineNext]_vars

---------------------------------------------------------------------------
(* Two make_move requests on the shared game, each on a thread of its own. *)
(* A step is one access to game.board (one store, or one scan by           *)
(* check_winner, is_board_full, get_available_moves or the test of         *)
(* make_move) together with the thread-local computation that follows it.  *)

Requests == {1, 2}
OtherRequest(t) == 3 - t
\* None, where a cell index is expected
None == -1

\* boards the service reaches with the game still on (human moves 2, 6, 7 and
\* 5, 1, 8 from the empty board), as the two requests find the game
ConcBoards ==
    { 0 :> "" @@ 1 :> "O" @@ 2 :> "X" @@ 3 :> "" @@ 4 :> "O"
        @@ 5 :> "" @@ 6 :> "X" @@ 7 :> "X" @@ 8 :> "O",
      0 :> "" @@ 1 :> "X" @@ 2 :> "O" @@ 3 :> "O" @@ 4 :> ""
        @@ 5 :> "X" @@ 6 :> "O" @@ 7 :> "" @@ 8 :> "X" }

\* a request on entry to the handler: position = data.get('position');
\* mark and overlap are history: whether the X this request placed is still
\* as placed, and whether the two requests were in flight at the same time
NewRequest(position) ==
    [pc |-> "test", position |-> position, stack |-> <<>>, retval |-> 0,
     ai_move |-> None, status |-> "", mark |-> "none", overlap |-> FALSE]

\* the local variables of one activation of get_best_move (kind "best") or of
\* minimax (kind "max" / "min"): the list being iterated, the number of moves
\* done, best_score, best_move and the depth argument
Frame(kind, moves, depth) ==
    [kind |-> kind, moves |-> moves, i |-> 0,
     best |-> IF kind = "min" THEN PosInf ELSE NegInf,
     best_move |-> None, depth |-> depth]

Top(t) == threads[t].stack[Len(threads[t].stack)]
Pop(stack) == SubSeq(stack, 1, Len(stack) - 1)
\* the move of the current iteration of the loop of frame f
CurrentMove(f) == f.moves[f.i + 1]
\* the arguments of the minimax call made from the loop of frame f
CalleeDepth(f) == IF f.kind = "best" THEN 0 ELSE f.depth + 1
CalleeKind(f) == IF f.kind = "min" THEN "max" ELSE "min"

InFlight(r) == r.pc # "test" /\ r.pc # "done"

\* self.board[c] = v, th being the requests after the storing thread's local
\* update: the store, and its effect on the marks the requests have placed
Store(c, v, th) ==
    /\ board' = [board EXCEPT ![c] = v]
    /\ threads' = [u \in Requests |->
                      IF th[u].mark = "intact" /\ th[u].position = c /\ v # "X"
                      THEN [th[u] EXCEPT !.mark = "lost"]
                      ELSE th[u]]

\* the handler returns jsonify(...) with this status
Respond(t, status) ==
    threads' = [threads EXCEPT ![t].pc = "done", ![t].status = status]

\* a minimax call of request t returns score to the loop that made it
Return(t, score) ==
    threads' = [threads EXCEPT ![t].pc = "retract", ![t].retval = score]

\* game.make_move(position, 'X'), the test
HumanTest(t) ==
    /\ pc = "threads" /\ threads[t].pc = "test"
    /\ LET position == threads[t].position
           o == OtherRequest(t)
           both == InFlight(threads[o])
       IN IF 0 <= position /\ position < 9 /\ board[position] = ""
          THEN threads' = [threads EXCEPT ![t].pc = "place",
                                          ![t].overlap = both,
                                          ![o].overlap = @ \/ both]
          ELSE threads' = [threads EXCEPT ![t].pc = "done",
                                          ![t].status = "Invalid move"]
    /\ UNCHANGED <<board, current_player, resp, req, over, late, pc, ret>>

\* game.make_move(position, 'X'), the store
HumanPlace(t) ==
    /\ pc = "threads" /\ threads[t].pc = "place"
    /\ Store(threads[t].position, "X",
             [threads EXCEPT ![t].pc = "winner1", ![t].mark = "intact"])
    /\ UNCHANGED <<current_player, resp, req, over, late, pc, ret>>

\* winner = game.check_winner() after the human's mark
HumanWinner(t) ==
    /\ pc = "threads" /\ threads[t].pc = "winner1"
    /\ IF check_winner(board) # "None"
       THEN Respond(t, "Player X wins!")
       ELSE threads' = [threads EXCEPT ![t].pc = "full1"]
    /\ UNCHANGED <<board, current_player, resp, req, over, late, pc, ret>>

\* game.is_board_full() after the human's mark
HumanFull(t) ==
    /\ pc = "threads" /\ threads[t].pc = "full1"
    /\ IF is_board_full(board)
       THEN Respond(t, "It's a draw!")
       ELSE threads' = [threads EXCEPT ![t].pc = "available0"]
    /\ UNCHANGED <<board, current_player, resp, req, over, late, pc, ret>>

\* get_best_move: available = self.get_available_moves()
BestMoveAvailable(t) ==
    /\ pc = "threads" /\ threads[t].pc = "available0"
    /\ Len(threads[t].stack) < MaxFrames
    /\ LET available == get_available_moves(board) IN
       IF available = <<>>
       THEN threads' = [threads EXCEPT ![t].pc = "winner2"]
       ELSE threads' = [threads EXCEPT
                ![t].pc = "write",
                ![t].stack = Append(@, Frame("best", available, 0))]
    /\ UNCHANGED <<board, current_player, resp, req, over, late, pc, ret>>

\* self.board[move] = 'O' (or 'X' in the minimizing loop) before the call
SearchWrite(t) ==
    /\ pc = "threads" /\ threads[t].pc = "write"
    /\ Store(CurrentMove(Top(t)),
             IF Top(t).kind = "min" THEN "X" ELSE "O",
             [threads EXCEPT ![t].pc = "winner"])
    /\ UNCHANGED <<current_player, resp, req, over, late, pc, ret>>

\* minimax: winner = self.check_winner() and the two returns on a winner
SearchWinner(t) ==
    /\ pc = "threads" /\ threads[t].pc = "winner"
    /\ LET winner == check_winner(board)
           depth == CalleeDepth(Top(t))
       IN IF winner = "O" THEN Return(t, 10 - depth)
          ELSE IF winner = "X" THEN Return(t, depth - 10)
          ELSE threads' = [threads EXCEPT ![t].pc = "full"]
    /\ UNCHANGED <<board, current_player, resp, req, over, late, pc, ret>>

\* minimax: elif self.is_board_full(): return 0
SearchFull(t) ==
    /\ pc = "threads" /\ threads[t].pc = "full"
    /\ IF is_board_full(board)
       THEN Return(t, 0)
       ELSE threads' = [threads EXCEPT ![t].pc = "available"]
    /\ UNCHANGED <<board, current_player, resp, req, over, late, pc, ret>>

\* minimax: for move in self.get_available_moves(); a loop over no move
\* returns best_score as initialised
SearchAvailable(t) ==
    /\ pc = "threads" /\ threads[t].pc = "available"
    /\ Len(threads[t].stack) < MaxFrames
    /\ LET moves == get_available_moves(board)
           f == Frame(CalleeKind(Top(t)), moves, CalleeDepth(Top(t)))
       IN IF moves = <<>>
          THEN Return(t, f.best)
          ELSE threads' = [threads EXCEPT ![t].pc = "write",
                                          ![t].stack = Append(@, f)]
    /\ UNCHANGED <<board, current_player, resp, req, over, late, pc, ret>>

\* the loop variables of frame f after the iteration that got score
AfterIteration(f, score) ==
    IF f.kind = "best"
    THEN IF score > f.best
         THEN [f EXCEPT !.i = @ + 1, !.best = score,
                        !.best_move = CurrentMove(f)]
         ELSE [f EXCEPT !.i = @ + 1]
    ELSE IF f.kind = "max"
    THEN [f EXCEPT !.i = @ + 1, !.best = max(score, @)]
    ELSE [f EXCEPT !.i = @ + 1, !.best = min(score, @)]

\* self.board[move] = '' after the call, the update of best_score, and, when
\* the list is exhausted, the return of the activation; get_best_move returns
\* best_move, or random.choice(available) when best_move is None
SearchRetract(t) ==
    /\ pc = "threads" /\ threads[t].pc = "retract"
    /\ LET f == AfterIteration(Top(t), threads[t].retval)
           rest == Pop(threads[t].stack)
       IN IF f.i < Len(f.moves)
          THEN Store(CurrentMove(Top(t)), "",
                     [threads EXCEPT ![t].pc = "write",
                                     ![t].stack = Append(rest, f)])
          ELSE IF f.kind # "best"
          THEN Store(CurrentMove(Top(t)), "",
                     [threads EXCEPT ![t].pc = "retract",
                                     ![t].stack = rest,
                                     ![t].retval = f.best])
          ELSE \E ai_move \in IF f.best_move # None THEN {f.best_move}
                              ELSE {f.moves[k] : k \in 1 .. Len(f.moves)} :
                  Store(CurrentMove(Top(t)), "",
                        [threads EXCEPT ![t].pc = "ai_test",
                                        ![t].stack = rest,
                                        ![t].ai_move = ai_move])
    /\ UNCHANGED <<current_player, resp, req, over, late, pc, ret>>

\* game.make_move(ai_move, 'O'), the test
AITest(t) ==
    /\ pc = "threads" /\ threads[t].pc = "ai_test"
    /\ IF board[threads[t].ai_move] = ""
       THEN threads' = [threads EXCEPT ![t].pc = "ai_place"]
       ELSE threads' = [threads EXCEPT ![t].pc = "winner2"]
    /\ UNCHANGED <<board, current_player, resp, req, over, late, pc, ret>>

\* game.make_move(ai_move, 'O'), the store
AIPlace(t) ==
    /\ pc = "threads" /\ threads[t].pc = "ai_place"
    /\ Store(threads[t].ai_move, "O", [threads EXCEPT ![t].pc = "winner2"])
    /\ UNCHANGED <<current_player, resp, req, over, late, pc, ret>>

\* winner = game.check_winner() after the AI move
AIWinner(t) ==
    /\ pc = "threads" /\ threads[t].pc = "winner2"
    /\ IF check_winner(board) # "None"
       THEN Respond(t, "AI (O) wins!")
       ELSE threads' = [threads EXCEPT ![t].pc = "full2"]
    /\ UNCHANGED <<board, current_player, resp, req, over, late, pc, ret>>

\* game.is_board_full() after the AI move, and the last return
AIFull(t) ==
    /\ pc = "threads" /\ threads[t].pc = "full2"
    /\ IF is_board_full(board)
       THEN Respond(t, "It's a draw!")
       ELSE Respond(t, "Your turn")
    /\ UNCHANGED <<board, current_player, resp, req, over, late, pc, ret>>

\* the game as some earlier requests left it, and two requests arriving
ConcInit ==
    /\ board \in ConcBoards
    /\ current_player = "X"
    /\ resp = NoResponse
    /\ req = NullPos
    /\ over = FALSE
    /\ late = FALSE
    /\ pc = "threads"
    /\ ret = NoReturn
    /\ threads \in [Requests -> {NewRequest(position) : position \in Indices}]

ConcNext ==
    \E t \in Requests :
        \/ HumanTest(t) \/ HumanPlace(t) \/ HumanWinner(t) \/ HumanFull(t)
        \/ BestMoveAvailable(t)
        \/ SearchWrite(t) \/ SearchWinner(t) \/ SearchFull(t)
        \/ SearchAvailable(t) \/ SearchRetract(t)
        \/ AITest(t) \/ AIPlace(t) \/ AIWinner(t) \/ AIFull(t)

ConcSpec == ConcInit /\ [][ConcNext]_vars

---------------------------------------------------------------------------
(* Vocabulary of the properties *)

\* mark m fills line number k of winning_combinations
Fills(b, m, k) == \A j \in 1 .. 3 : b[winning_combinations[k][j]] = m
\* mark m holds a complete line
HasLine(b, m) == \E k \in 1 .. 8 : Fills(b, m, k)
NoLine(b) == ~HasLine(b, "X") /\ ~HasLine(b, "O")
NoEmptyCell(b) == NumEmpty(b) = 0
Terminal(b) == ~NoLine(b) \/ NoEmptyCell(b)
\* b2 is b with mark m written into cell i and nothing else changed
Placed(b, i, m, b2) ==
    /\ b2[i] = m
    /\ \A j \in Indices \ {i} : b2[j] = b[j]
Accepted == resp.kind = "make_move" /\ resp.success

---------------------------------------------------------------------------
(* C1 *)

\* C1: make_move(position, player) with an integer position returns True and
\* writes player into board[position], changing no other cell, exactly when
\* 0 <= position < 9 and the cell is empty; otherwise it returns False and
\* the board is the board before the call.
C1_MakeMoveContract ==
    (pc = "returned" /\ ret.op = "make_move" /\ ret.position.kind = "int") =>
        LET p == ret.position.v IN
        /\ ~ret.raised
        /\ IF p \in Indices /\ ret.before[p] = ""
           THEN ret.value /\ Placed(ret.before, p, ret.player, board)
           ELSE ~ret.value /\ board = ret.before

\* a placement accepted on a board that already holds marks
C1_Witness ==
    /\ pc = "returned" /\ ret.op = "make_move" /\ ret.position.kind = "int"
    /\ ret.value
    /\ NumEmpty(ret.before) = 5
    /\ ret.player = "O"

---------------------------------------------------------------------------
(* C2 *)

\* C2: in a game in which no move is made after a game-over response, X never
\* holds a complete line on the board, and once the game is over O holds a
\* line or the board is full without a line.
C2_AutomatedPlayerNeverLoses ==
    ~late =>
        /\ ~HasLine(board, "X")
        /\ over => (HasLine(board, "O") \/ (NoEmptyCell(board) /\ NoLine(board)))

\* a game the automated player has won
C2_Witness ==
    ~late /\ over /\ HasLine(board, "O") /\ resp.status = "AI (O) wins!"

---------------------------------------------------------------------------
(* C3 *)

\* the board b2 an accepted request for cell p must leave from board b
C3_Reply(b, p, b2) ==
    LET mid == [b EXCEPT ![p] = "X"] IN
    /\ b[p] = ""
    /\ IF NoLine(mid) /\ ~NoEmptyCell(mid)
       THEN \E c \in Indices : mid[c] = "" /\ Placed(mid, c, "O", b2)
       ELSE b2 = mid

\* C3: an accepted request places the X, and then places exactly one O in a
\* cell that was empty if and only if the board with the X has no complete
\* line and is not full; the response carries the resulting board.
C3_HumanThenAutomated ==
    [][(resp'.kind = "make_move" /\ resp'.success) =>
          /\ req'.kind = "int" /\ req'.v \in Indices
          /\ C3_Reply(board, req'.v, board')
          /\ resp'.board = board']_vars

\* a request answered after the automated reply was placed
C3_Witness ==
    /\ Accepted /\ ~resp.game_over
    /\ NumEmpty(board) = 3
    /\ board[req.v] = "X"

---------------------------------------------------------------------------
(* C4 *)

\* C4: when get_best_move or minimax returns, every cell holds the value it
\* held when the call began.
C4_SearchRestoresBoard ==
    (pc = "returned" /\ ret.op \in {"get_best_move", "minimax"}) =>
        \A i \in Indices : board[i] = ret.before[i]

\* a search that explored several plies has returned
C4_Witness ==
    /\ pc = "returned" /\ ret.op = "minimax"
    /\ NumEmpty(ret.before) = MaxSearchEmpty
    /\ NoLine(ret.before)

---------------------------------------------------------------------------
(* C5 *)

\* placing O in cell c completes a line of three O marks
CompletesO(b, c) == b[c] = "" /\ HasLine([b EXCEPT ![c] = "O"], "O")

\* C5: on a board without a complete line on which some empty cell completes
\* an O line, get_best_move returns a cell that completes an O line.
C5_WinInOne ==
    (/\ pc = "returned" /\ ret.op = "get_best_move"
     /\ NoLine(ret.before)
     /\ \E c \in Indices : CompletesO(ret.before, c)) =>
        /\ ret.choices # {}
        /\ \A m \in ret.choices : CompletesO(ret.before, m)

\* O to move with a win in one and other cells to choose from
C5_Witness ==
    /\ pc = "returned" /\ ret.op = "get_best_move"
    /\ NoLine(ret.before)
    /\ NumEmpty(ret.before) = 4
    /\ Cardinality({i \in Indices : ret.before[i] = "X"}) = 3
    /\ Cardinality({c \in Indices : CompletesO(ret.before, c)}) = 1
    /\ \A m \in ret.choices : CompletesO(ret.before, m) /\ m > 4

---------------------------------------------------------------------------
(* C6 *)

\* the numbers of the lines whose three cells hold the same non-empty mark
WonLines(b) == {k \in 1 .. 8 : Fills(b, "X", k) \/ Fills(b, "O", k)}
\* the first of them in list order
FirstWonLine(b) == CHOOSE k \in WonLines(b) : \A k2 \in WonLines(b) : k <= k2

\* C6: check_winner returns the mark of the first won line in list order and
\* None when there is none; the outcome is Win(that mark) when a line is won,
\* Draw when none is and no cell is empty, InProgress otherwise.
C6_OutcomeEvaluation ==
    (pc = "returned" /\ ret.op = "evaluate") =>
        LET b == ret.before IN
        /\ ret.full = (\A i \in Indices : b[i] \in {"X", "O"})
        /\ IF WonLines(b) # {}
           THEN LET mark == b[winning_combinations[FirstWonLine(b)][1]] IN
                ret.winner = mark /\ ret.outcome = <<"Win", mark>>
           ELSE /\ ret.winner = "None"
                /\ ret.outcome =
                       IF ret.full THEN <<"Draw">> ELSE <<"InProgress">>

\* a full board with lines of both marks, O's first in list order
C6_Witness ==
    /\ pc = "returned" /\ ret.op = "evaluate"
    /\ ret.full
    /\ HasLine(ret.before, "X") /\ HasLine(ret.before, "O")
    /\ ret.outcome = <<"Win", "O">>

---------------------------------------------------------------------------
(* C7 *)

\* C7: an accepted request's response names X as winner only when
\* check_winner on the returned board is X, O only when it is O, a draw only
\* when the board is full without a line, and has game_over true exactly
\* when the returned board has a line or is full.
C7_ResponseIsBoardOutcome ==
    Accepted =>
        /\ resp.status = "Player X wins!" => check_winner(resp.board) = "X"
        /\ resp.status = "AI (O) wins!" => check_winner(resp.board) = "O"
        /\ resp.status = "It's a draw!" =>
               (NoEmptyCell(resp.board) /\ NoLine(resp.board))
        /\ resp.game_over = Terminal(resp.board)

---------------------------------------------------------------------------
(* C8 *)

\* C8: get-current-state returns the current board, and its game-over
\* indication is true exactly when the board has a complete line or no empty
\* cell.
C8_StateCarriesOutcome ==
    resp.kind = "board" =>
        /\ resp.board = board
        /\ resp.game_over = Terminal(board)

---------------------------------------------------------------------------
(* C9 *)

\* C9: no make_move request ends in a raised error, whatever position it
\* carries, and a rejected request leaves the board unchanged.
C9_NoRequestRaises ==
    [][/\ resp'.kind # "raised"
       /\ (resp'.kind = "make_move" /\ ~resp'.success) => board' = board]_vars

---------------------------------------------------------------------------
(* C10 *)

\* C10: a cell that holds a mark when a request completes holds the same
\* mark when the next request completes, unless that request is a reset.
C10_OccupiedCellsPermanent ==
    [][resp'.kind # "reset" =>
          \A i \in Indices : board[i] # "" => board'[i] = board[i]]_vars

\* a request for an occupied cell was rejected in the middle of a game
C10_Witness ==
    /\ resp = InvalidMove
    /\ NumEmpty(board) = 5

---------------------------------------------------------------------------
(* C11 *)

\* C11: a reset request, from whatever state, returns success and leaves all
\* nine cells empty, so that get_available_moves is 0, 1, ..., 8 in ascending
\* order and the outcome is InProgress; a reset right after a reset leaves
\* the same state and gives the same response.
C11_ResetClearsAndIsIdempotent ==
    [][resp'.kind = "reset" =>
          /\ resp'.success /\ ~resp'.game_over
          /\ resp'.board = board'
          /\ \A i \in Indices : board'[i] = ""
          /\ get_available_moves(board') = <<0, 1, 2, 3, 4, 5, 6, 7, 8>>
          /\ Outcome(board') = <<"InProgress">>
          /\ resp.kind = "reset" =>
                 (board' = board /\ current_player' = current_player
                                /\ resp' = resp)]_vars

\* a reset has been answered
C11_Witness ==
    /\ resp.kind = "reset" /\ resp.success
    /\ NumEmpty(board) = 9
    /\ ~over

---------------------------------------------------------------------------
(* C12 *)

\* b holds exactly nine cells, each one of '', 'X', 'O'
BoardShape(b) == DOMAIN b = Indices /\ \A i \in Indices : b[i] \in Cells

\* C12: after any sequence of reset, make_move and get_board requests the
\* game's board, and the board carried by the response, hold exactly nine
\* cells and every cell is one of empty, X, O.
C12_BoardShape ==
    /\ BoardShape(board)
    /\ resp.payload => BoardShape(resp.board)

\* get_board answered late in a game
C12_Witness ==
    /\ resp.kind = "board"
    /\ NumEmpty(resp.board) = 1
    /\ BoardShape(resp.board)

---------------------------------------------------------------------------
(* C13 *)

\* C13: on a board that already has a complete line, a make_move request for
\* any empty cell 0..8 is accepted: the response has success true and the X
\* is on the board the request leaves and returns.
C13_MovesAfterGameOverAccepted ==
    (pc = "service" /\ ~NoLine(board)) =>
        \A p \in Indices : board[p] = "" =>
            \A o \in make_move_results(board, IntPos(p)) :
                /\ o.resp.kind = "make_move" /\ o.resp.success
                /\ o.board[p] = "X"
                /\ o.resp.board = o.board

\* a request was accepted on a board the automated player had already won
C13_Witness ==
    /\ late /\ Accepted
    /\ HasLine(board, "O")
    /\ board[req.v] = "X"
    /\ resp.board = board

---------------------------------------------------------------------------
(* C14 *)

\* C14: in every state reachable from the empty board through make_move and
\* reset requests, X and O do not both hold a complete line.
C14_NeverBothLines ==
    ~(HasLine(board, "X") /\ HasLine(board, "O"))

---------------------------------------------------------------------------
(* The reference game value, by plies from the root *)

Empties(b) == {i \in Indices : b[i] = ""}
Other(m) == IF m = "O" THEN "X" ELSE "O"
Greatest(S) == CHOOSE x \in S : \A y \in S : y <= x
Least(S) == CHOOSE x \in S : \A y \in S : x <= y

\* the value of position b, d plies after the root, with mover to move: a
\* position where O holds a line is worth top - d, one where X holds a line
\* d - top, a full one without a line 0; otherwise the greatest child value
\* when O is to move and the least when X is
RECURSIVE RefValue(_, _, _, _)
RefValue(b, d, mover, top) ==
    IF HasLine(b, "O") THEN top - d
    ELSE IF HasLine(b, "X") THEN d - top
    ELSE IF NoEmptyCell(b) THEN 0
    ELSE LET vals == {RefValue([b EXCEPT ![c] = mover], d + 1, Other(mover), top) :
                          c \in Empties(b)}
         IN IF mover = "O" THEN Greatest(vals) ELSE Least(vals)

\* the value of placing O in the empty cell c of the root b
RefCandidate(b, c, top) == RefValue([b EXCEPT ![c] = "O"], 1, "X", top)
\* the greatest candidate value at the root b
RefBest(b, top) == Greatest({RefCandidate(b, c, top) : c \in Empties(b)})

\* get_best_move has returned from a board without a line and with an empty cell
SearchedOpenBoard ==
    /\ pc = "returned" /\ ret.op = "get_best_move"
    /\ NoLine(ret.before) /\ ~NoEmptyCell(ret.before)

---------------------------------------------------------------------------
(* C16 *)

\* C16 as stated: the search scores a terminal position d plies after the
\* board get_best_move is called on 10 - d when O holds a line, d - 10 when X
\* holds a line and 0 when the board is full without a line (a win completed
\* by the candidate move itself, d = 1, scores 9), so the best score found is
\* the reference value with 10 at the top.
C16_ScoresByPliesFromRoot ==
    SearchedOpenBoard => ret.score = RefBest(ret.before, 10)

\* C16 as amended: the depth is counted from the position after the candidate
\* move, so a terminal position d plies after the board get_best_move is
\* called on scores 11 - d when O holds a line, d - 11 when X holds a line
\* and 0 when the board is full without a line; a win completed by the
\* candidate move itself (d = 1) scores 10.
C16_ScoresByPliesBelowCandidate ==
    /\ SearchedOpenBoard => ret.score = RefBest(ret.before, 11)
    /\ (SearchedOpenBoard /\ \E c \in Indices : CompletesO(ret.before, c)) =>
           ret.score = 10

\* a search whose best candidate completes a line at once, among candidates
\* that lose
C16_Witness ==
    /\ SearchedOpenBoard
    /\ ret.score = 10
    /\ NumEmpty(ret.before) = 3
    /\ \E c \in Empties(ret.before) : RefCandidate(ret.before, c, 11) = 2 - 11

---------------------------------------------------------------------------
(* C17 *)

\* the empty cells of b whose reference value is the greatest
RefBestCells(b) ==
    {c \in Empties(b) : RefCandidate(b, c, 10) = RefBest(b, 10)}

\* C17: on every board without a line and with an empty cell, get_best_move
\* returns the smallest index among the empty cells whose value, by
\* exhaustive max/min search down to terminal positions, is the greatest.
C17_SelectsLowestBestCell ==
    SearchedOpenBoard =>
        /\ ~ret.random
        /\ ret.choices = {Least(RefBestCells(ret.before))}

\* several cells share the greatest value, and a cell of lower index than
\* the one returned has a smaller value
C17_Witness ==
    /\ SearchedOpenBoard
    /\ Cardinality(RefBestCells(ret.before)) >= 2
    /\ \E m \in ret.choices :
          /\ m = Least(RefBestCells(ret.before))
          /\ \E c \in Empties(ret.before) : c < m
    /\ NumEmpty(ret.before) = 4

---------------------------------------------------------------------------
(* C18 *)

\* the score the loop of get_best_move computes for candidate cell c of b
CandidateScore(b, c) == minimax([b EXCEPT ![c] = "O"], 0, FALSE).score

\* C18: on every board, with or without a line, get_best_move returns None
\* exactly when no cell is empty; otherwise every candidate's score is an
\* integer in -10..10, the random choice is not executed, and the call can
\* return one value only, which is an empty cell.
C18_SearchAlwaysSelects ==
    (pc = "returned" /\ ret.op = "get_best_move") =>
        LET b == ret.before IN
        /\ (ret.choices = {}) = NoEmptyCell(b)
        /\ ~ret.random
        /\ ~NoEmptyCell(b) =>
               /\ \A c \in Empties(b) : CandidateScore(b, c) \in -10 .. 10
               /\ ret.score \in -10 .. 10
               /\ Cardinality(ret.choices) = 1
               /\ \A m \in ret.choices : b[m] = ""

\* a search on a board X has already won: every candidate scores -10 and the
\* first empty cell is returned
C18_Witness ==
    /\ pc = "returned" /\ ret.op = "get_best_move"
    /\ HasLine(ret.before, "X") /\ ~HasLine(ret.before, "O")
    /\ NumEmpty(ret.before) = 3
    /\ ret.score = -10
    /\ ~ret.random
    /\ ret.choices = {Least(Empties(ret.before))}

---------------------------------------------------------------------------
(* C19 *)

Count(b, m) == Cardinality({i \in Indices : b[i] = m})

\* C19: whenever an accepted make_move response has game_over false, the
\* board it returns holds as many X marks as O marks, has no complete line
\* and has an empty cell.
C19_TurnBalance ==
    (Accepted /\ ~resp.game_over) =>
        /\ Count(resp.board, "X") = Count(resp.board, "O")
        /\ NoLine(resp.board)
        /\ ~NoEmptyCell(resp.board)

\* the game goes on with four marks of each player on the board
C19_Witness ==
    /\ Accepted /\ ~resp.game_over
    /\ Count(resp.board, "X") = 4 /\ Count(resp.board, "O") = 4

---------------------------------------------------------------------------
(* C20 *)

\* C20: once an accepted make_move response has reported game_over true,
\* every later accepted make_move response reports game_over true until a
\* reset is executed; an accepted response from the empty board (the board
\* a reset leaves) reports game_over false.
C20_GameOverAbsorbing ==
    [][(resp'.kind = "make_move" /\ resp'.success) =>
          /\ over => resp'.game_over
          /\ NumEmpty(board) = 9 => ~resp'.game_over]_vars

\* a request accepted after the game was over, completing a line of X marks
C20_Witness ==
    /\ over /\ late
    /\ Accepted /\ resp.game_over
    /\ HasLine(board, "X")

---------------------------------------------------------------------------
(* C15 *)

\* request u took the step: its place in the code or its locals changed
Stepped(u) ==
    [threads'[u] EXCEPT !.mark = "none", !.overlap = FALSE]
        # [threads[u] EXCEPT !.mark = "none", !.overlap = FALSE]

\* C15: without mutual exclusion the X placed by a request whose placement
\* succeeded can be overwritten or erased without a reset, and whenever that
\* happens it is the other request, in flight at the same time, that does
\* it, by a store of its search (the hypothetical mark or its retraction)
\* or of the move its search chose, never the request that placed the X.
C15_MarkLostToOtherRequest ==
    [][\A t \in Requests :
          (threads[t].mark = "intact" /\ threads'[t].mark = "lost") =>
              LET u == OtherRequest(t)
                  cell == threads[t].position
              IN /\ Stepped(u) /\ ~Stepped(t)
                 /\ threads[u].pc \in {"write", "retract", "ai_place"}
                 /\ threads[t].overlap /\ threads[u].overlap
                 /\ board[cell] = "X" /\ board'[cell] \in {"", "O"}]_vars

\* both requests were answered with success, and the X one of them placed
\* is no longer on the board: its cell is empty
C15_Witness ==
    /\ pc = "threads"
    /\ \A t \in Requests :
          threads[t].pc = "done" /\ threads[t].status # "Invalid move"
    /\ \E t \in Requests :
          /\ threads[t].mark = "lost"
          /\ board[threads[t].position] = ""
          /\ threads[OtherRequest(t)].mark = "intact"

===========================================================================
